---- MODULE Spec2Model ----
(***************************************************************************)
(* Model of the speed-reading engine of src/src/App.jsx: the useSpeedReader *)
(* hook (linear cursor and its interval), the ReadingView component (pair   *)
(* cursor, pair timer, training modulator, mode switches) and the library   *)
(* handlers of SpeedReaderApp.  One action is one browser event (a click, a *)
(* key, a timer tick) together with the React renders and effect passes it  *)
(* causes, run to quiescence.                                               *)
(***************************************************************************)
EXTENDS Integers, Sequences, FiniteSets, TLC

VARIABLES
    phase,              \* App.jsx:921   "books" | "reading"
    books,              \* App.jsx:922   stored books: id -> saved progress
    currentBook,        \* App.jsx:923   id of the current book, NoBook for null
    words,              \* App.jsx:924   the word sequence
    wpm,                \* App.jsx:927
    charLimit,          \* App.jsx:928
    position,           \* App.jsx:105
    isPlaying,          \* App.jsx:106
    intervalRef,        \* App.jsx:107   TRUE when it holds a timer id
    liveIntervals,      \* intervals created by App.jsx:149 and not yet cleared
    isAngleMode,        \* App.jsx:355
    pairGap,            \* App.jsx:356
    pairPos,            \* App.jsx:357
    isPairPlaying,      \* App.jsx:358
    pairTimerRef,       \* App.jsx:359   TRUE when it holds a timer id
    livePairTimers,     \* intervals created by App.jsx:389 and not yet cleared
    isTraining,         \* App.jsx:361
    trainingDir,        \* App.jsx:362
    pairsSinceStepRef,  \* App.jsx:363
    showGuide,          \* App.jsx:365
    positionRef,        \* App.jsx:368
    lastSyncedPosRef,   \* App.jsx:371
    prevPairPosRef      \* App.jsx:373

vars == << phase, books, currentBook, words, wpm, charLimit, position, isPlaying,
           intervalRef, liveIntervals, isAngleMode, pairGap, pairPos,
           isPairPlaying, pairTimerRef, livePairTimers, isTraining, trainingDir,
           pairsSinceStepRef, showGuide, positionRef, lastSyncedPosRef,
           prevPairPosRef >>

(***************************************************************************)
(* Bounds of the model.                                                     *)
(***************************************************************************)
\* length of the longer document of the catalogue
MaxLen == 5
\* length of the shorter document of the catalogue
ShortLen == 1
\* rate commands are explored down to MaxRateSteps steps below the initial rate
MaxRateSteps == 1
\* width commands are explored down to MaxCharSteps steps below the initial width
MaxCharSteps == 1
\* manual gap commands are explored down to MaxGapSteps steps below the initial
\* gap, and up to MaxGapSteps steps above the smallest training gap
MaxGapSteps == 1
\* length of the document of the long training run
TrainLen == 660
\* longest document of the chunk-function runs
MaxChunkLen == 4
\* largest width (character budget) of the chunk-function runs
MaxBudget == 12
\* seek targets are drawn from SeekMargin below 0 to SeekMargin beyond the length
SeekMargin == 2
\* longest document of the pair-timer runs
MaxPairLen == 40

(***************************************************************************)
(* Program constants.                                                       *)
(***************************************************************************)
WPM_INIT == 300
WPM_MIN == 60
WPM_MAX == 1200
WPM_STEP == 10
KEY_WPM_MIN == 20
KEY_WPM_MAX == 1000
CHAR_INIT == 25
CHAR_MIN == 10
CHAR_MAX == 100
CHAR_STEP == 5
TRAIN_MIN == 10
TRAIN_MAX == 550
TRAIN_STEP == 10
TRAIN_EVERY_PAIRS == 3
GAP_INIT == 500
GAP_MANUAL_MIN == 0
GAP_MANUAL_MAX == 1200
GAP_MANUAL_STEP == 10
NoBook == 0

Min(a, b) == IF a < b THEN a ELSE b
Max(a, b) == IF a > b THEN a ELSE b
clamp(n, lo, hi) == Max(lo, Min(hi, n))

(***************************************************************************)
(* Documents.  A stored book is identified by its id; its words are fixed   *)
(* at upload.  Document d of the catalogue has the first DocLen(d) words of *)
(* a fixed text whose words cycle through BaseWords.                        *)
(***************************************************************************)
BaseWords == << "peripheral", "vision", "training",
                "pneumonoultramicroscopicsilicovolcanoconiosis",
                "span", "of", "reading" >>
WordAt(i) == BaseWords[((i - 1) % Len(BaseWords)) + 1]
Doc(n) == [i \in 1..n |-> WordAt(i)]
BookIds == {1, 2}
LongBook == 3
DocLen(id) == IF id = 1 THEN MaxLen ELSE IF id = 2 THEN ShortLen ELSE TrainLen
BookWords(id) == Doc(DocLen(id))


(***************************************************************************)
(* The component state as one record: the values a render sees (state) and  *)
(* the refs the effects read and write.                                     *)
(***************************************************************************)
Cur == [ phase |-> phase, books |-> books, currentBook |-> currentBook,
         words |-> words, wpm |-> wpm, charLimit |-> charLimit,
         position |-> position, isPlaying |-> isPlaying,
         intervalRef |-> intervalRef, liveIntervals |-> liveIntervals,
         isAngleMode |-> isAngleMode, pairGap |-> pairGap, pairPos |-> pairPos,
         isPairPlaying |-> isPairPlaying, pairTimerRef |-> pairTimerRef,
         livePairTimers |-> livePairTimers, isTraining |-> isTraining,
         trainingDir |-> trainingDir, pairsSinceStepRef |-> pairsSinceStepRef,
         showGuide |-> showGuide, positionRef |-> positionRef,
         lastSyncedPosRef |-> lastSyncedPosRef, prevPairPosRef |-> prevPairPosRef ]

\* the state part of a record: what React compares to decide on a new render
StateOf(s) == << s.phase, s.books, s.currentBook, s.words, s.wpm, s.charLimit,
                 s.position, s.isPlaying, s.isAngleMode, s.pairGap, s.pairPos,
                 s.isPairPlaying, s.isTraining, s.trainingDir, s.showGuide >>

\* ReadingView's useState/useRef initial values (App.jsx:355-373); the
\* component is mounted while phase = "reading" (App.jsx:1136-1179)
MountReadingView(s) ==
    [s EXCEPT !.isAngleMode = FALSE, !.pairGap = GAP_INIT, !.pairPos = 0,
              !.isPairPlaying = FALSE, !.pairTimerRef = FALSE,
              !.isTraining = FALSE, !.trainingDir = 1,
              !.pairsSinceStepRef = 0, !.showGuide = FALSE,
              !.positionRef = s.position, !.lastSyncedPosRef = -1,
              !.prevPairPosRef = 0]

(***************************************************************************)
(* useSpeedReader (App.jsx:104-203)                                         *)
(***************************************************************************)
stopInterval(s) ==
    IF s.intervalRef
    THEN [s EXCEPT !.intervalRef = FALSE, !.liveIntervals = @ - 1]
    ELSE s

\* Array.prototype.join of the buffer (App.jsx:135)
RECURSIVE join(_, _)
join(buffer, sep) ==
    IF Len(buffer) = 0 THEN ""
    ELSE IF Len(buffer) = 1 THEN buffer[1]
    ELSE buffer[1] \o sep \o join(Tail(buffer), sep)

\* ChunkScan leaving the buffer empty when the first word exceeds the budget
RECURSIVE ChunkScan_DropsLongWord(_, _, _, _, _)
ChunkScan_DropsLongWord(w, limit, i, totalChars, buffer) ==
    IF i < Len(w)
    THEN LET wLen == Len(w[i + 1]) + 1
         IN  IF totalChars + wLen > limit
             THEN buffer
             ELSE ChunkScan_DropsLongWord(w, limit, i + 1, totalChars + wLen,
                                          Append(buffer, w[i + 1]))
    ELSE buffer

\* the loop of getChunkText (App.jsx:121-134), 0-based i; the result is
\* the buffer of whole words
RECURSIVE ChunkScan(_, _, _, _, _)
ChunkScan(w, limit, i, totalChars, buffer) ==
    IF i < Len(w)
    THEN LET wLen == Len(w[i + 1]) + 1
         IN  IF totalChars + wLen > limit
             THEN IF Len(buffer) = 0 THEN << w[i + 1] >> ELSE buffer
             ELSE ChunkScan(w, limit, i + 1, totalChars + wLen,
                            Append(buffer, w[i + 1]))
    ELSE buffer

\* getChunkText (App.jsx:115-136)
getChunkText(w, limit, pos) ==
    IF Len(w) = 0 THEN "" ELSE join(ChunkScan(w, limit, pos, 0, << >>), " ")

\* App.jsx:138
displayedText == getChunkText(words, charLimit, position)

\* the tick interval of the autoplay effect (App.jsx:145); Math.round of a
\* positive quotient is the floor of the quotient plus one half
msPerChunk(rate) ==
    Max(1, (2 * 60000 + Max(1, rate)) \div (2 * Max(1, rate)))

\* App.jsx:147-149: stopInterval(); intervalRef.current = setInterval(...)
startInterval(s) ==
    [stopInterval(s) EXCEPT !.intervalRef = TRUE, !.liveIntervals = @ + 1]

\* body of the autoplay effect, run with the values of render r
AutoplayEffect(r, n) ==
    IF ~r.isPlaying \/ Len(r.words) = 0 THEN stopInterval(n) ELSE startInterval(n)

AutoplayDepsChanged(p, r) ==
    \/ p.isPlaying # r.isPlaying
    \/ p.wpm # r.wpm
    \/ p.charLimit # r.charLimit
    \/ p.words # r.words

\* forward accumulation of the tick updater (App.jsx:154-160), 0-based next
RECURSIVE TickScan(_, _, _, _)
TickScan(w, limit, next, totalChars) ==
    IF next < Len(w)
    THEN LET len == Len(w[next + 1]) + 1
         IN  IF totalChars + len > limit
             THEN next
             ELSE TickScan(w, limit, next + 1, totalChars + len)
    ELSE next

\* TickNext advancing one word per tick, whatever fits the budget
TickNext_OneWord(w, limit, p) == Min(Len(w), p + 1)

\* the index the tick updater computes from p (App.jsx:151-165, stepSize 1)
TickNext(w, limit, p) ==
    LET scanned == TickScan(w, limit, p, 0)
    IN  IF scanned = p THEN Min(Len(w), p + 1) ELSE scanned

\* tickUpdater starting over from the first word at the end
tickUpdater_Wraps(s) ==
    LET next == TickNext(s.words, s.charLimit, s.position)
    IN  IF next >= Len(s.words)
        THEN [s EXCEPT !.position = 0]
        ELSE [s EXCEPT !.position = next]

\* tickUpdater stopping only when the next index exceeds the length
tickUpdater_Overshoots(s) ==
    LET next == TickNext(s.words, s.charLimit, s.position)
    IN  IF next > Len(s.words)
        THEN [stopInterval(s) EXCEPT !.isPlaying = FALSE]
        ELSE [s EXCEPT !.position = next]

\* the interval callback (App.jsx:149-174)
tickUpdater(s) ==
    LET next == TickNext(s.words, s.charLimit, s.position)
    IN  IF next >= Len(s.words)
        THEN [stopInterval(s) EXCEPT !.isPlaying = FALSE]
        ELSE [s EXCEPT !.position = next]

togglePlay(s) ==
    IF Len(s.words) > 0 THEN [s EXCEPT !.isPlaying = ~@] ELSE s

resetPosition(s) == [s EXCEPT !.position = 0, !.isPlaying = FALSE]

\* jumpToPosition closes over words.length of the render that created it
jumpToPosition(s, newPos, wordsLength) ==
    [s EXCEPT !.position = Max(0, Min(newPos, Max(0, wordsLength - 1)))]

(***************************************************************************)
(* ReadingView (App.jsx:308-910)                                            *)
(***************************************************************************)
\* leftIndex taking the pair position as it is
leftIndex_Raw(p) == Max(0, p)

\* App.jsx:376
leftIndex(p) == Max(0, p - (p % 2))

stopPairTimer(s) ==
    IF s.pairTimerRef
    THEN [s EXCEPT !.pairTimerRef = FALSE, !.livePairTimers = @ - 1]
    ELSE s

startPairTimer(s) ==
    [stopPairTimer(s) EXCEPT !.pairTimerRef = TRUE, !.livePairTimers = @ + 1]

\* pairTickUpdater stopping only when the next index exceeds the length
pairTickUpdater_Overshoots(s) ==
    LET next == s.pairPos + 2
    IN  IF next > Len(s.words)
        THEN [stopPairTimer(s) EXCEPT !.isPairPlaying = FALSE]
        ELSE [s EXCEPT !.pairPos = next]

\* the pair interval callback (App.jsx:389-399)
pairTickUpdater(s) ==
    LET next == s.pairPos + 2
    IN  IF next >= Len(s.words)
        THEN [stopPairTimer(s) EXCEPT !.isPairPlaying = FALSE]
        ELSE [s EXCEPT !.pairPos = next]

\* App.jsx:369
PositionRefEffect(r, n) == [n EXCEPT !.positionRef = r.position]

\* AngleModeEffect without setIsPlaying(false) on entry
AngleModeEffect_KeepsPlaying(r, n) ==
    IF r.isAngleMode
    THEN LET pos == n.positionRef
             evenFromPosition == Max(0, pos - (pos % 2))
         IN  [stopPairTimer(n) EXCEPT !.pairPos = evenFromPosition,
                                      !.isPairPlaying = FALSE,
                                      !.lastSyncedPosRef = -1,
                                      !.prevPairPosRef = evenFromPosition]
    ELSE [stopPairTimer(n) EXCEPT !.isTraining = FALSE,
                                  !.isPairPlaying = FALSE,
                                  !.lastSyncedPosRef = -1]

\* AngleModeEffect without setIsTraining(false) on exit
AngleModeEffect_KeepsTraining(r, n) ==
    IF r.isAngleMode
    THEN LET pos == n.positionRef
             evenFromPosition == Max(0, pos - (pos % 2))
         IN  [stopPairTimer(n) EXCEPT !.isPlaying = FALSE,
                                      !.pairPos = evenFromPosition,
                                      !.isPairPlaying = FALSE,
                                      !.lastSyncedPosRef = -1,
                                      !.prevPairPosRef = evenFromPosition]
    ELSE [stopPairTimer(n) EXCEPT !.isPairPlaying = FALSE,
                                  !.lastSyncedPosRef = -1]

\* AngleModeEffect snapping the pair to the linear position as it is
AngleModeEffect_NoSnap(r, n) ==
    IF r.isAngleMode
    THEN LET pos == n.positionRef
         IN  [stopPairTimer(n) EXCEPT !.isPlaying = FALSE,
                                      !.pairPos = pos,
                                      !.isPairPlaying = FALSE,
                                      !.lastSyncedPosRef = -1,
                                      !.prevPairPosRef = pos]
    ELSE [stopPairTimer(n) EXCEPT !.isTraining = FALSE,
                                  !.isPairPlaying = FALSE,
                                  !.lastSyncedPosRef = -1]

\* entry/exit of the two-word mode (App.jsx:437-454)
AngleModeEffect(r, n) ==
    IF r.isAngleMode
    THEN LET pos == n.positionRef
             evenFromPosition == Max(0, pos - (pos % 2))
         IN  [stopPairTimer(n) EXCEPT !.isPlaying = FALSE,
                                      !.pairPos = evenFromPosition,
                                      !.isPairPlaying = FALSE,
                                      !.lastSyncedPosRef = -1,
                                      !.prevPairPosRef = evenFromPosition]
    ELSE [stopPairTimer(n) EXCEPT !.isTraining = FALSE,
                                  !.isPairPlaying = FALSE,
                                  !.lastSyncedPosRef = -1]

\* App.jsx:476-481
PairTimerEffect(r, n) ==
    IF ~r.isAngleMode THEN n
    ELSE IF r.isPairPlaying THEN startPairTimer(n) ELSE stopPairTimer(n)

PairTimerDepsChanged(p, r) ==
    \/ p.isPairPlaying # r.isPairPlaying
    \/ p.isAngleMode # r.isAngleMode
    \/ p.wpm # r.wpm
    \/ Len(p.words) # Len(r.words)

\* SyncEffect moving the linear cursor to the pair after the displayed one
SyncEffect_NextPair(r, n) ==
    IF ~r.isAngleMode THEN n
    ELSE IF n.lastSyncedPosRef # leftIndex(r.pairPos)
         THEN jumpToPosition([n EXCEPT !.lastSyncedPosRef = leftIndex(r.pairPos)],
                             leftIndex(r.pairPos) + 2, Len(r.words))
         ELSE n

\* App.jsx:484-490
SyncEffect(r, n) ==
    IF ~r.isAngleMode THEN n
    ELSE IF n.lastSyncedPosRef # leftIndex(r.pairPos)
         THEN jumpToPosition([n EXCEPT !.lastSyncedPosRef = leftIndex(r.pairPos)],
                             leftIndex(r.pairPos), Len(r.words))
         ELSE n

SyncDepsChanged(p, r) ==
    \/ p.isAngleMode # r.isAngleMode
    \/ leftIndex(p.pairPos) # leftIndex(r.pairPos)
    \/ Len(p.words) # Len(r.words)

\* TrainingGapStep with > and < for >= and <=: the flip comes one step late
TrainingGapStep_FlipsLate(n, dir) ==
    LET next == n.pairGap + dir * TRAIN_STEP
    IN  IF next > TRAIN_MAX
        THEN [n EXCEPT !.pairGap = TRAIN_MAX, !.trainingDir = -1]
        ELSE IF next < TRAIN_MIN
             THEN [n EXCEPT !.pairGap = TRAIN_MIN, !.trainingDir = 1]
             ELSE [n EXCEPT !.pairGap = next]

\* the setPairGap updater of the training effect (App.jsx:506-511)
TrainingGapStep(n, dir) ==
    LET next == n.pairGap + dir * TRAIN_STEP
    IN  IF next >= TRAIN_MAX
        THEN [n EXCEPT !.pairGap = TRAIN_MAX, !.trainingDir = -1]
        ELSE IF next <= TRAIN_MIN
             THEN [n EXCEPT !.pairGap = TRAIN_MIN, !.trainingDir = 1]
             ELSE [n EXCEPT !.pairGap = next]

\* whether the training effect takes the pair it sees as a forward move
CountsAsAdvance(seenPairPos, marker) == seenPairPos > marker

\* TrainingEffect with > for >= in the comparison with TRAIN_EVERY_PAIRS
TrainingEffect_StepsLate(r, n) ==
    IF ~(r.isAngleMode /\ r.isTraining)
    THEN [n EXCEPT !.prevPairPosRef = r.pairPos]
    ELSE IF CountsAsAdvance(r.pairPos, n.prevPairPosRef)
         THEN LET counted == [n EXCEPT !.pairsSinceStepRef = @ + 1,
                                       !.prevPairPosRef = r.pairPos]
              IN  IF counted.pairsSinceStepRef > TRAIN_EVERY_PAIRS
                  THEN TrainingGapStep([counted EXCEPT !.pairsSinceStepRef = 0],
                                       r.trainingDir)
                  ELSE counted
         ELSE n

\* App.jsx:493-516
TrainingEffect(r, n) ==
    IF ~(r.isAngleMode /\ r.isTraining)
    THEN [n EXCEPT !.prevPairPosRef = r.pairPos]
    ELSE IF CountsAsAdvance(r.pairPos, n.prevPairPosRef)
         THEN LET counted == [n EXCEPT !.pairsSinceStepRef = @ + 1,
                                       !.prevPairPosRef = r.pairPos]
              IN  IF counted.pairsSinceStepRef >= TRAIN_EVERY_PAIRS
                  THEN TrainingGapStep([counted EXCEPT !.pairsSinceStepRef = 0],
                                       r.trainingDir)
                  ELSE counted
         ELSE n

TrainingDepsChanged(p, r) ==
    \/ p.pairPos # r.pairPos
    \/ p.isAngleMode # r.isAngleMode
    \/ p.isTraining # r.isTraining
    \/ p.trainingDir # r.trainingDir


\* getNextChunkStart of the key handler (App.jsx:549-558)
RECURSIVE NextScan(_, _, _, _)
NextScan(w, limit, next, total) ==
    IF next < Len(w)
    THEN LET len == Len(w[next + 1]) + 1
         IN  IF total + len > limit
             THEN next
             ELSE NextScan(w, limit, next + 1, total + len)
    ELSE next

\* getNextChunkStart without the step past a word wider than the budget
getNextChunkStart_NoProgress(w, limit, pos) == NextScan(w, limit, pos, 0)

getNextChunkStart(w, limit, pos) ==
    LET next == NextScan(w, limit, pos, 0)
    IN  IF next = pos THEN Min(Len(w), pos + 1) ELSE next

\* getPrevChunkStart of the key handler (App.jsx:560-569)
RECURSIVE PrevScan(_, _, _, _)
PrevScan(w, limit, prev, total) ==
    IF prev > 0
    THEN LET len == Len(w[prev]) + 1
         IN  IF total + len > limit
             THEN prev
             ELSE PrevScan(w, limit, prev - 1, total + len)
    ELSE prev

\* getPrevChunkStart without the step back over a word wider than the budget
getPrevChunkStart_NoFallback(w, limit, pos) == PrevScan(w, limit, pos, 0)

getPrevChunkStart(w, limit, pos) ==
    LET prev == PrevScan(w, limit, pos, 0)
    IN  IF prev = pos THEN Max(0, pos - 1) ELSE prev

\* manual pair steps of the key handler (App.jsx:585-596)
PairStepForward(p, wordsLength) == Min(p + 2, Max(0, wordsLength - 2))
PairStepBackward(p) == Max(0, p - 2)

\* toggleTraining without setIsAngleMode(false) when Training is turned off
toggleTraining_StaysPaired(s) ==
    IF ~s.isTraining
    THEN [s EXCEPT !.isAngleMode = TRUE,
                   !.isPlaying = FALSE,
                   !.pairsSinceStepRef = 0,
                   !.trainingDir = 1,
                   !.pairGap = TRAIN_MIN,
                   !.isTraining = TRUE,
                   !.isPairPlaying = TRUE,
                   !.prevPairPosRef = leftIndex(s.pairPos),
                   !.showGuide = TRUE]
    ELSE [s EXCEPT !.isTraining = FALSE,
                   !.isPairPlaying = FALSE]

\* App.jsx:457-473
toggleTraining(s) ==
    IF ~s.isTraining
    THEN [s EXCEPT !.isAngleMode = TRUE,
                   !.isPlaying = FALSE,
                   !.pairsSinceStepRef = 0,
                   !.trainingDir = 1,
                   !.pairGap = TRAIN_MIN,
                   !.isTraining = TRUE,
                   !.isPairPlaying = TRUE,
                   !.prevPairPosRef = leftIndex(s.pairPos),
                   !.showGuide = TRUE]
    ELSE [s EXCEPT !.isTraining = FALSE,
                   !.isPairPlaying = FALSE,
                   !.isAngleMode = FALSE]

\* App.jsx:533-539
handleStartPause(s) ==
    IF s.isAngleMode THEN [s EXCEPT !.isPairPlaying = ~@] ELSE togglePlay(s)

(***************************************************************************)
(* React's commit: after a render with new state, the cleanups of the       *)
(* effects whose dependencies changed run (ReadingView's before the         *)
(* hook's), then the effects themselves in declaration order, the child     *)
(* component first.  Effects read the state of the render r they belong to; *)
(* refs and queued state updates accumulate in n.  p is the previous        *)
(* render.  State set by effects causes another render and pass.            *)
(***************************************************************************)
Mounted(s) == s.phase = "reading"

Cleanups(p, r) ==
    LET c1 == IF /\ Mounted(p) /\ p.isAngleMode
                 /\ (~Mounted(r) \/ PairTimerDepsChanged(p, r))
              THEN stopPairTimer(r) ELSE r
    IN  IF AutoplayDepsChanged(p, r) /\ p.isPlaying /\ Len(p.words) > 0
        THEN stopInterval(c1) ELSE c1

ReadingViewEffects(p, r, n) ==
    LET first == ~Mounted(p)
        e0 == IF first \/ p.position # r.position
              THEN PositionRefEffect(r, n) ELSE n
        e1 == IF first \/ p.isAngleMode # r.isAngleMode
              THEN AngleModeEffect(r, e0) ELSE e0
        e2 == IF first \/ PairTimerDepsChanged(p, r)
              THEN PairTimerEffect(r, e1) ELSE e1
        e3 == IF first \/ SyncDepsChanged(p, r)
              THEN SyncEffect(r, e2) ELSE e2
        e4 == IF first \/ TrainingDepsChanged(p, r)
              THEN TrainingEffect(r, e3) ELSE e3
    IN  e4

EffectPass(p, r) ==
    LET c == Cleanups(p, r)
        v == IF Mounted(r) THEN ReadingViewEffects(p, r, c)
             ELSE IF Mounted(p) THEN MountReadingView(c) ELSE c
    IN  IF AutoplayDepsChanged(p, r) THEN AutoplayEffect(r, v) ELSE v

RECURSIVE Settle(_, _)
Settle(p, r) ==
    LET n == EffectPass(p, r)
    IN  IF StateOf(n) = StateOf(r) THEN n ELSE Settle(r, n)

Apply(n) ==
    /\ phase' = n.phase
    /\ books' = n.books
    /\ currentBook' = n.currentBook
    /\ words' = n.words
    /\ wpm' = n.wpm
    /\ charLimit' = n.charLimit
    /\ position' = n.position
    /\ isPlaying' = n.isPlaying
    /\ intervalRef' = n.intervalRef
    /\ liveIntervals' = n.liveIntervals
    /\ isAngleMode' = n.isAngleMode
    /\ pairGap' = n.pairGap
    /\ pairPos' = n.pairPos
    /\ isPairPlaying' = n.isPairPlaying
    /\ pairTimerRef' = n.pairTimerRef
    /\ livePairTimers' = n.livePairTimers
    /\ isTraining' = n.isTraining
    /\ trainingDir' = n.trainingDir
    /\ pairsSinceStepRef' = n.pairsSinceStepRef
    /\ showGuide' = n.showGuide
    /\ positionRef' = n.positionRef
    /\ lastSyncedPosRef' = n.lastSyncedPosRef
    /\ prevPairPosRef' = n.prevPairPosRef

\* one event: the handler's batched updates h, then renders and effects
Do(h) == Apply(Settle(Cur, h))


(***************************************************************************)
(* Initial state: SpeedReaderApp constructed, the library shown, no book    *)
(* stored yet (App.jsx:921-950).                                            *)
(***************************************************************************)
InitState ==
    [ phase |-> "books", books |-> [id \in {} |-> 0], currentBook |-> NoBook,
      words |-> << >>, wpm |-> WPM_INIT, charLimit |-> CHAR_INIT,
      position |-> 0, isPlaying |-> FALSE,
      intervalRef |-> FALSE, liveIntervals |-> 0,
      isAngleMode |-> FALSE, pairGap |-> GAP_INIT, pairPos |-> 0,
      isPairPlaying |-> FALSE, pairTimerRef |-> FALSE,
      livePairTimers |-> 0, isTraining |-> FALSE,
      trainingDir |-> 1, pairsSinceStepRef |-> 0,
      showGuide |-> FALSE, positionRef |-> 0,
      lastSyncedPosRef |-> -1, prevPairPosRef |-> 0 ]

\* the variables hold the values of record n
Holds(n) ==
    /\ phase = n.phase
    /\ books = n.books
    /\ currentBook = n.currentBook
    /\ words = n.words
    /\ wpm = n.wpm
    /\ charLimit = n.charLimit
    /\ position = n.position
    /\ isPlaying = n.isPlaying
    /\ intervalRef = n.intervalRef
    /\ liveIntervals = n.liveIntervals
    /\ isAngleMode = n.isAngleMode
    /\ pairGap = n.pairGap
    /\ pairPos = n.pairPos
    /\ isPairPlaying = n.isPairPlaying
    /\ pairTimerRef = n.pairTimerRef
    /\ livePairTimers = n.livePairTimers
    /\ isTraining = n.isTraining
    /\ trainingDir = n.trainingDir
    /\ pairsSinceStepRef = n.pairsSinceStepRef
    /\ showGuide = n.showGuide
    /\ positionRef = n.positionRef
    /\ lastSyncedPosRef = n.lastSyncedPosRef
    /\ prevPairPosRef = n.prevPairPosRef

Init == Holds(InitState)

(***************************************************************************)
(* Library events (BooksView, phase = "books")                              *)
(***************************************************************************)
\* handleFileUpload (App.jsx:995-1059): a new book with progress 0
handleFileUpload(s, id) ==
    [s EXCEPT !.books = [b \in DOMAIN s.books \cup {id} |->
                           IF b = id THEN 0 ELSE s.books[b]]]

UploadBook(id) ==
    /\ phase = "books"
    /\ id \notin DOMAIN books
    /\ Do(handleFileUpload(Cur, id))

\* handleOpenBook (App.jsx:1061-1072); jumpToPosition is the callback of
\* the render before the click, so it clamps with the old words.length
handleOpenBook(s, id) ==
    LET opened == resetPosition([s EXCEPT !.currentBook = id,
                                          !.words = BookWords(id)])
        jumped == IF s.books[id] # 0
                  THEN jumpToPosition(opened, s.books[id], Len(s.words))
                  ELSE opened
    IN  MountReadingView([jumped EXCEPT !.phase = "reading"])

OpenBook(id) ==
    /\ phase = "books"
    /\ id \in DOMAIN books
    /\ Do(handleOpenBook(Cur, id))

\* handleDeleteBook (App.jsx:1074-1093), confirmed by the user
handleDeleteBook(s, id) ==
    LET removed == [s EXCEPT !.books = [b \in DOMAIN s.books \ {id} |-> s.books[b]]]
    IN  IF s.currentBook = id
        THEN [removed EXCEPT !.currentBook = NoBook, !.words = << >>,
                             !.phase = "books"]
        ELSE removed

DeleteBook(id) ==
    /\ phase = "books"
    /\ id \in DOMAIN books
    /\ Do(handleDeleteBook(Cur, id))

(***************************************************************************)
(* Reader events (ReadingView, phase = "reading")                           *)
(***************************************************************************)
\* handleBackFromReader (App.jsx:1095-1106)
handleBackFromReader(s) ==
    [s EXCEPT !.books = [b \in DOMAIN s.books |->
                           IF b = s.currentBook THEN s.position ELSE s.books[b]],
              !.phase = "books"]

BackFromReader ==
    /\ phase = "reading"
    /\ Do(handleBackFromReader(Cur))

\* the start/pause button and the Space key (App.jsx:581, 779, 811)
StartPause ==
    /\ phase = "reading"
    /\ Do(handleStartPause(Cur))

InRateWindow(w) ==
    /\ w >= WPM_INIT - MaxRateSteps * WPM_STEP
    /\ w <= WPM_INIT

\* decWpm / incWpm (App.jsx:340-341)
decWpm(s) == [s EXCEPT !.wpm = clamp(@ - WPM_STEP, WPM_MIN, WPM_MAX)]
incWpm(s) == [s EXCEPT !.wpm = clamp(@ + WPM_STEP, WPM_MIN, WPM_MAX)]

\* ArrowUp / ArrowDown (App.jsx:573-578)
keyWpmUp(s) == [s EXCEPT !.wpm = clamp(@ + 10, KEY_WPM_MIN, KEY_WPM_MAX)]
keyWpmDown(s) == [s EXCEPT !.wpm = clamp(@ - 10, KEY_WPM_MIN, KEY_WPM_MAX)]

\* the key listener exists only for a non-empty word sequence (App.jsx:545)
KeysBound == phase = "reading" /\ Len(words) > 0

DecWpm ==
    /\ phase = "reading"
    /\ InRateWindow(decWpm(Cur).wpm)
    /\ Do(decWpm(Cur))

IncWpm ==
    /\ phase = "reading"
    /\ InRateWindow(incWpm(Cur).wpm)
    /\ Do(incWpm(Cur))

KeyArrowUp ==
    /\ KeysBound
    /\ InRateWindow(keyWpmUp(Cur).wpm)
    /\ Do(keyWpmUp(Cur))

KeyArrowDown ==
    /\ KeysBound
    /\ InRateWindow(keyWpmDown(Cur).wpm)
    /\ Do(keyWpmDown(Cur))

InCharWindow(c) ==
    /\ c >= CHAR_INIT - MaxCharSteps * CHAR_STEP
    /\ c <= CHAR_INIT

\* the width buttons, shown in the linear mode only (App.jsx:828-835)
decChars(s) == [s EXCEPT !.charLimit = Max(CHAR_MIN, @ - CHAR_STEP)]
incChars(s) == [s EXCEPT !.charLimit = Min(CHAR_MAX, @ + CHAR_STEP)]

DecChars ==
    /\ phase = "reading" /\ ~isAngleMode
    /\ InCharWindow(decChars(Cur).charLimit)
    /\ Do(decChars(Cur))

IncChars ==
    /\ phase = "reading" /\ ~isAngleMode
    /\ InCharWindow(incChars(Cur).charLimit)
    /\ Do(incChars(Cur))

\* handleSeek without setIsPlaying(false)
handleSeek_NoPause(s, newPos) == jumpToPosition(s, newPos, Len(s.words))

\* handleSeek (App.jsx:1108-1120), isPeripheral is never set; the slider
\* and its buttons are disabled in the two-word mode (App.jsx:710-749)
handleSeek(s, newPos) ==
    jumpToPosition([s EXCEPT !.isPlaying = FALSE], newPos, Len(s.words))

Seek(newPos) ==
    /\ phase = "reading" /\ ~isAngleMode
    /\ Do(handleSeek(Cur, newPos))

\* keyArrowRight without setIsPairPlaying(false) in the two-word mode
keyArrowRight_KeepsPlaying(s) ==
    IF s.isAngleMode
    THEN [s EXCEPT !.pairPos = PairStepForward(@, Len(s.words))]
    ELSE jumpToPosition([s EXCEPT !.isPlaying = FALSE],
                        getNextChunkStart(s.words, s.charLimit, s.position),
                        Len(s.words))

\* ArrowRight / ArrowLeft (App.jsx:583-609)
keyArrowRight(s) ==
    IF s.isAngleMode
    THEN [s EXCEPT !.isPairPlaying = FALSE,
                   !.pairPos = PairStepForward(@, Len(s.words))]
    ELSE jumpToPosition([s EXCEPT !.isPlaying = FALSE],
                        getNextChunkStart(s.words, s.charLimit, s.position),
                        Len(s.words))

keyArrowLeft(s) ==
    IF s.isAngleMode
    THEN [s EXCEPT !.isPairPlaying = FALSE, !.pairPos = PairStepBackward(@)]
    ELSE jumpToPosition([s EXCEPT !.isPlaying = FALSE],
                        getPrevChunkStart(s.words, s.charLimit, s.position),
                        Len(s.words))

KeyArrowRight ==
    /\ KeysBound
    /\ Do(keyArrowRight(Cur))

KeyArrowLeft ==
    /\ KeysBound
    /\ Do(keyArrowLeft(Cur))

\* the mode button (App.jsx:866)
ToggleAngleMode ==
    /\ phase = "reading"
    /\ Do([Cur EXCEPT !.isAngleMode = ~@])

\* the training button (App.jsx:874)
ToggleTraining ==
    /\ phase = "reading"
    /\ Do(toggleTraining(Cur))

\* the guide button (App.jsx:858)
ToggleGuide ==
    /\ phase = "reading"
    /\ Do([Cur EXCEPT !.showGuide = ~@])

InGapWindow(g) ==
    \/ /\ g >= GAP_INIT - MaxGapSteps * GAP_MANUAL_STEP
       /\ g <= GAP_INIT
    \/ g <= TRAIN_MIN + MaxGapSteps * GAP_MANUAL_STEP

\* the gap buttons, shown in the two-word mode (App.jsx:884-903)
gapDec(s) == [s EXCEPT !.pairGap = Max(GAP_MANUAL_MIN, @ - GAP_MANUAL_STEP)]
gapInc(s) == [s EXCEPT !.pairGap = Min(GAP_MANUAL_MAX, @ + GAP_MANUAL_STEP)]

GapDec ==
    /\ phase = "reading" /\ isAngleMode
    /\ InGapWindow(gapDec(Cur).pairGap)
    /\ Do(gapDec(Cur))

GapInc ==
    /\ phase = "reading" /\ isAngleMode
    /\ InGapWindow(gapInc(Cur).pairGap)
    /\ Do(gapInc(Cur))

(***************************************************************************)
(* Timer ticks: a live interval fires                                       *)
(***************************************************************************)
LinearTick ==
    /\ liveIntervals > 0
    /\ Do(tickUpdater(Cur))

PairTick ==
    /\ livePairTimers > 0
    /\ phase = "reading"
    /\ Do(pairTickUpdater(Cur))

Next ==
    \/ \E id \in BookIds : UploadBook(id)
    \/ \E id \in BookIds : OpenBook(id)
    \/ \E id \in BookIds : DeleteBook(id)
    \/ BackFromReader
    \/ StartPause
    \/ DecWpm
    \/ IncWpm
    \/ KeyArrowUp
    \/ KeyArrowDown
    \/ DecChars
    \/ IncChars
    \/ \E newPos \in 0..Max(0, Len(words) - 1) : Seek(newPos)
    \/ KeyArrowRight
    \/ KeyArrowLeft
    \/ ToggleAngleMode
    \/ ToggleTraining
    \/ ToggleGuide
    \/ GapDec
    \/ GapInc
    \/ LinearTick
    \/ PairTick

Spec == Init /\ [][Next]_vars

(***************************************************************************)
(* The long training run: the reader opened on a document of TrainLen      *)
(* words, Training entered once and driven only by pair advances (pair     *)
(* ticks and manual forward steps) and play/pause.                         *)
(***************************************************************************)
LongBookOpened ==
    LET uploaded == Settle(InitState, handleFileUpload(InitState, LongBook))
    IN  Settle(uploaded, handleOpenBook(uploaded, LongBook))

InitTrain == Holds(LongBookOpened)

EnterTraining == ~isTraining /\ ToggleTraining
TrainingStartPause == isTraining /\ StartPause
TrainingStepForward == isTraining /\ KeyArrowRight

NextTrain ==
    \/ EnterTraining
    \/ TrainingStartPause
    \/ TrainingStepForward
    \/ PairTick

SpecTrain == InitTrain /\ [][NextTrain]_vars

(***************************************************************************)
(* The chunk functions over drawn inputs: the reader open in the linear     *)
(* mode on any document of up to MaxChunkLen words over ChunkWords (and on  *)
(* ExampleDoc), with any width from 1 to MaxBudget, at position 0; the keys *)
(* step by chunk boundaries and the interval ticks.                         *)
(***************************************************************************)
ChunkWords == {"I", "The", "quick"}
ExampleDoc == << "The", "quick", "brown", "fox", "jumps" >>
ChunkDocs ==
    UNION {[1..n -> ChunkWords] : n \in 1..MaxChunkLen} \cup {ExampleDoc}

BookOpened ==
    LET uploaded == Settle(InitState, handleFileUpload(InitState, 1))
    IN  Settle(uploaded, handleOpenBook(uploaded, 1))

InitChunk ==
    \E w \in ChunkDocs, limit \in 1..MaxBudget :
        Holds([BookOpened EXCEPT !.words = w, !.charLimit = limit])

LinearStartPause == ~isAngleMode /\ StartPause
LinearStepForward == ~isAngleMode /\ KeyArrowRight
LinearStepBackward == ~isAngleMode /\ KeyArrowLeft

NextChunk ==
    \/ LinearStartPause
    \/ LinearStepForward
    \/ LinearStepBackward
    \/ LinearTick

SpecChunk == InitChunk /\ [][NextChunk]_vars

(***************************************************************************)
(* The pair timer alone: the reader open in the two-word mode at pair 0 on  *)
(* a document of 1 to MaxPairLen words, driven by play/pause and pair       *)
(* ticks.  A live interval keeps firing (setInterval), hence the weak       *)
(* fairness of PairTick.  PairTickFair is WF_vars(PairTick) written out,    *)
(* with PairTimerLive, the guard of PairTick, for ENABLED <<PairTick>>_vars  *)
(* (a tick of a live pair interval always changes the state: it moves the   *)
(* pair or clears the interval).                                            *)
(***************************************************************************)
PairedOpened == Settle(BookOpened, [BookOpened EXCEPT !.isAngleMode = TRUE])

InitPair ==
    \E n \in 1..MaxPairLen : Holds([PairedOpened EXCEPT !.words = Doc(n)])

PairStartPause == isAngleMode /\ StartPause

NextPair ==
    \/ PairStartPause
    \/ PairTick

PairTimerLive == livePairTimers > 0 /\ phase = "reading"

PairTickFair == []<>(~PairTimerLive) \/ []<><<PairTick>>_vars

SpecPair == InitPair /\ [][NextPair]_vars /\ PairTickFair

(***************************************************************************)
(* The rate commands over their whole range: the reader open on a document, *)
(* the WPM buttons and the ArrowUp/ArrowDown keys pressed in any order.     *)
(***************************************************************************)
InitRate == Holds(BookOpened)

RateButtonDown == phase = "reading" /\ Do(decWpm(Cur))
RateButtonUp == phase = "reading" /\ Do(incWpm(Cur))
RateKeyUp == KeysBound /\ Do(keyWpmUp(Cur))
RateKeyDown == KeysBound /\ Do(keyWpmDown(Cur))

NextRate ==
    \/ RateButtonDown
    \/ RateButtonUp
    \/ RateKeyUp
    \/ RateKeyDown

SpecRate == InitRate /\ [][NextRate]_vars

(***************************************************************************)
(* Linear playback left alone: started at any position of any document of   *)
(* ChunkDocs with any width from 1 to MaxBudget, then driven by the ticks   *)
(* of the interval only.  A live interval keeps firing (setInterval), hence *)
(* the weak fairness of LinearTick.  LinearTickFair is WF_vars(LinearTick)  *)
(* written out, with IntervalLive, the guard of LinearTick, for             *)
(* ENABLED <<LinearTick>>_vars (a tick of a live interval always changes    *)
(* the state: it moves the cursor or clears the interval).                  *)
(***************************************************************************)
PlaybackStarted(w, limit, pos) ==
    LET at == [BookOpened EXCEPT !.words = w, !.charLimit = limit,
                                 !.position = pos, !.positionRef = pos]
    IN  Settle(at, handleStartPause(at))

InitPlay ==
    \E w \in ChunkDocs, limit \in 1..MaxBudget :
      \E pos \in 0..(Len(w) - 1) : Holds(PlaybackStarted(w, limit, pos))

NextPlay == LinearTick

IntervalLive == liveIntervals > 0

LinearTickFair == []<>(~IntervalLive) \/ []<><<LinearTick>>_vars

SpecPlay == InitPlay /\ [][NextPlay]_vars /\ LinearTickFair


(***************************************************************************)
(* Properties                                                               *)
(***************************************************************************)

\* C1: pairPos is even in every reachable state (after mode entry, pair
\* ticks and manual pair steps, for word sequences of every length).
C1_PairPosEven == pairPos % 2 = 0

\* C2: while Training is active, pairGap stays within [TRAIN_MIN, TRAIN_MAX],
\* the manual gap buttons of the two-word mode included.
C2_TrainingGapInBounds ==
    isTraining => (pairGap >= TRAIN_MIN /\ pairGap <= TRAIN_MAX)

\* C3: at most one pacing timer is active at any instant: each cursor has at
\* most one live interval, and the linear and the pair interval are never
\* live together.
C3_AtMostOneTimer ==
    /\ liveIntervals <= 1
    /\ livePairTimers <= 1
    /\ ~(liveIntervals > 0 /\ livePairTimers > 0)

\* a pair interval is live in the two-word mode after the rate was changed
\* and the linear cursor has moved: switches, play/pause and rate commands
\* have acted
C3_Witness ==
    /\ isAngleMode /\ isTraining /\ livePairTimers = 1 /\ liveIntervals = 0
    /\ wpm # WPM_INIT /\ pairPos > 0

\* C4: the linear position satisfies 0 <= position < max(1, length of the
\* current word sequence) in every reachable state.
C4_PositionInRange ==
    position >= 0 /\ position < Max(1, Len(words))

\* C5: after returning to the document list or opening a document no pacing
\* timer is left running: linear playback is idle and no interval is live.
C5_NoTimerAfterLeaving ==
    [][(BackFromReader \/ \E id \in BookIds : OpenBook(id))
         => (~isPlaying' /\ liveIntervals' = 0 /\ livePairTimers' = 0)]_vars

\* C6: entering Training with toggleTraining starts the pair timer: pair
\* playback is running with a live pair interval once the event is handled.
C6_TrainingStartsPairTimer ==
    [][(ToggleTraining /\ ~isTraining)
         => (isPairPlaying' /\ livePairTimers' = 1)]_vars

\* C7: entering Training ends with the two-word mode on, Training on, linear
\* playback idle, the pairs-since-step counter 0, direction +1, the gap at
\* TRAIN_MIN and the centre guide shown.
C7_TrainingEntryState ==
    [][(ToggleTraining /\ ~isTraining)
         => /\ isAngleMode' /\ isTraining' /\ ~isPlaying'
            /\ pairsSinceStepRef' = 0
            /\ trainingDir' = 1
            /\ pairGap' = TRAIN_MIN
            /\ showGuide']_vars


\* C8: while Training is active every change of pairPos to a
\* strictly larger value counts as exactly one pair-advance, and a backward
\* or unchanged value never counts.
C8_EveryForwardMoveCounts ==
    [][(isTraining /\ isTraining')
         => IF pairPos' > pairPos
            THEN pairsSinceStepRef' = (pairsSinceStepRef + 1) % TRAIN_EVERY_PAIRS
            ELSE pairsSinceStepRef' = pairsSinceStepRef]_vars

\* C9: while Training is active the first and second counted pair-advances
\* after a gap step leave pairGap and the direction unchanged, and the third
\* resets the counter to 0 and moves pairGap by trainingDir * TRAIN_STEP,
\* clamped to [TRAIN_MIN, TRAIN_MAX] (from 10 with direction +1 to 20, the
\* direction staying +1).
C9_ThirdAdvanceStepsGap ==
    [][(isTraining /\ isTraining' /\ pairsSinceStepRef' # pairsSinceStepRef)
         => IF pairsSinceStepRef = TRAIN_EVERY_PAIRS - 1
            THEN /\ pairsSinceStepRef' = 0
                 /\ pairGap' = clamp(pairGap + trainingDir * TRAIN_STEP,
                                     TRAIN_MIN, TRAIN_MAX)
                 /\ (pairGap = TRAIN_MIN /\ trainingDir = 1
                       => pairGap' = 20 /\ trainingDir' = 1)
            ELSE /\ pairsSinceStepRef' = pairsSinceStepRef + 1
                 /\ pairGap' = pairGap
                 /\ trainingDir' = trainingDir]_vars

\* the third advance after entry at pair 0 has moved the gap from 10 to 20
C9_Witness ==
    /\ isTraining /\ pairPos = 6 /\ pairsSinceStepRef = 0
    /\ pairGap = 20 /\ trainingDir = 1

\* C10: in a training run driven only by pair advances the direction flips
\* exactly when a gap step lands on a bound (to -1 at TRAIN_MAX, to +1 at
\* TRAIN_MIN); every gap change is one step of TRAIN_STEP in the current
\* direction, so the gap is strictly monotonic between flips.
C10_FlipsExactlyAtBounds ==
    [][(isTraining /\ isTraining')
         => /\ pairGap' # pairGap => pairGap' = pairGap + trainingDir * TRAIN_STEP
            /\ trainingDir' # trainingDir
                 <=> (pairGap' # pairGap /\ pairGap' \in {TRAIN_MIN, TRAIN_MAX})
            /\ (pairGap' # pairGap /\ pairGap' = TRAIN_MAX) => trainingDir' = -1
            /\ (pairGap' # pairGap /\ pairGap' = TRAIN_MIN) => trainingDir' = 1]_vars

\* the gap has gone 10 -> 550 -> 10 and is rising again
C10_Witness ==
    /\ isTraining /\ trainingDir = 1 /\ pairGap = 20
    /\ pairPos >= 4 * (((TRAIN_MAX - TRAIN_MIN) \div TRAIN_STEP) * TRAIN_EVERY_PAIRS)

\* C11: whenever the two-word mode is active the linear position equals
\* pairPos after every event (tick, manual step or mode entry), and an event
\* in the two-word mode changes the linear position only by changing pairPos.
C11_PairDrivesPosition ==
    [][(phase' = "reading" /\ isAngleMode')
         => /\ position' = pairPos'
            /\ (phase = "reading" /\ isAngleMode /\ position' # position)
                 => pairPos' # pairPos]_vars

\* C12: for every start index below the length the forward chunk boundary
\* (of the key handler and of the tick) is strictly beyond the start index
\* and at most the length; at a start index at or beyond the length the
\* chunk text is empty and neither boundary function nor the tick advances.
C12_ForwardProgress ==
    /\ \A s \in 0..(Len(words) - 1) :
         /\ s < getNextChunkStart(words, charLimit, s)
         /\ getNextChunkStart(words, charLimit, s) <= Len(words)
         /\ s < TickNext(words, charLimit, s)
         /\ TickNext(words, charLimit, s) <= Len(words)
    /\ \A s \in {Len(words), Len(words) + 1} :
         /\ getChunkText(words, charLimit, s) = ""
         /\ getNextChunkStart(words, charLimit, s) <= s
         /\ tickUpdater([Cur EXCEPT !.position = s]).position = s

\* a tick has moved the cursor of the example document from 0 to 2 with
\* width 10, playback still running
C12_Witness ==
    /\ words = ExampleDoc /\ charLimit = 10
    /\ position = 2 /\ isPlaying

\* the cost of the k words from 0-based index s on: (length + 1) each
RECURSIVE C13_RunCost(_, _, _)
C13_RunCost(w, s, k) ==
    IF k = 0 THEN 0 ELSE C13_RunCost(w, s, k - 1) + Len(w[s + k]) + 1

\* the largest number of consecutive whole words from s whose cost fits
C13_LongestRun(w, limit, s) ==
    CHOOSE k \in 0..(Len(w) - s) :
        /\ C13_RunCost(w, s, k) <= limit
        /\ \A j \in 0..(Len(w) - s) : C13_RunCost(w, s, j) <= limit => j <= k

\* the words of the chunk at s as the claim describes them
C13_ChunkWords(w, limit, s) ==
    IF C13_LongestRun(w, limit, s) = 0
    THEN << w[s + 1] >>
    ELSE SubSeq(w, s + 1, s + C13_LongestRun(w, limit, s))

C14_ForwardThenBackward ==
    \A s \in 0..(Len(words) - 1) :
        getPrevChunkStart(words, charLimit,
                          getNextChunkStart(words, charLimit, s)) <= s

\* the cursor has been stepped to a position from which forward then
\* backward lands strictly before it
C14_Witness ==
    /\ position > 0
    /\ getPrevChunkStart(words, charLimit,
                         getNextChunkStart(words, charLimit, position)) < position

\* C15: a linear tick whose computed next index reaches or exceeds the length
\* stops the interval, makes playback idle and leaves position unchanged
\* below the length; every other tick moves position to the computed next
\* chunk start.
C15_TickStopsAtEnd ==
    [][LinearTick
         => IF TickNext(words, charLimit, position) >= Len(words)
            THEN /\ ~isPlaying' /\ liveIntervals' = 0 /\ ~intervalRef'
                 /\ position' = position /\ position' < Len(words)
            ELSE /\ position' = TickNext(words, charLimit, position)
                 /\ isPlaying' = isPlaying]_vars

\* playback is running on the last chunk: the next tick computes an index
\* that reaches the length
C15_Witness ==
    /\ isPlaying /\ liveIntervals = 1 /\ position > 0
    /\ TickNext(words, charLimit, position) >= Len(words)

\* C16: the transition from the linear to the two-word mode leaves linear
\* playback idle with no linear interval, sets pairPos to the largest even
\* index not above the linear position, and leaves the pair timer stopped.
C16_LinearToPaired ==
    [][(phase = "reading" /\ ~isAngleMode /\ isAngleMode')
         => /\ ~isPlaying' /\ liveIntervals' = 0
            /\ pairPos' = position - (position % 2)
            /\ ~isPairPlaying' /\ livePairTimers' = 0 /\ ~pairTimerRef']_vars

\* the two-word mode has been entered with the linear cursor on index 2:
\* the pair sits on index 2, paused, the markers reset to it
C16_Witness ==
    /\ isAngleMode /\ ~isTraining /\ ~isPairPlaying
    /\ pairPos = 2 /\ position = 2 /\ positionRef = 2 /\ prevPairPosRef = 2
    /\ lastSyncedPosRef = 2

\* C17: Training implies the two-word mode in every reachable state, and the
\* transition from the two-word to the linear mode leaves the pair timer
\* stopped and Training off.
C17_TrainingImpliesPaired ==
    /\ [](isTraining => isAngleMode)
    /\ [][(isAngleMode /\ ~isAngleMode')
            => /\ ~isTraining'
               /\ ~isPairPlaying' /\ livePairTimers' = 0 /\ ~pairTimerRef']_vars

\* the reader is back in the linear mode after a training run: the gap is
\* still the training gap, the pair has advanced, nothing is running
C17_Witness ==
    /\ phase = "reading" /\ ~isAngleMode /\ ~isTraining
    /\ pairGap = TRAIN_MIN /\ pairPos > 0 /\ livePairTimers = 0

\* C18: handleSeek in the linear mode, for any integer target, leaves
\* playback idle and position equal to the target clamped to
\* [0, length - 1], 0 when the word sequence is empty.
C18_SeekClampsAndPauses ==
    ~isAngleMode =>
      \A target \in (0 - SeekMargin)..(Len(words) + SeekMargin) :
        LET n == Settle(Cur, handleSeek(Cur, target))
        IN  /\ ~n.isPlaying /\ n.liveIntervals = 0
            /\ n.position = IF Len(words) = 0 THEN 0
                            ELSE clamp(target, 0, Len(words) - 1)

\* the cursor has been moved to the last word and playback is idle
C18_Witness ==
    /\ phase = "reading" /\ ~isAngleMode /\ ~isPlaying /\ liveIntervals = 0
    /\ Len(words) > 1 /\ position = Len(words) - 1

\* C19: togglePlay moves idle playback to playing only when the word
\* sequence is non-empty, and moves playing playback to idle in every
\* reachable state, those with an empty word sequence included.
C19_TogglePlay ==
    /\ (~isPlaying /\ togglePlay(Cur).isPlaying) => Len(words) > 0
    /\ (~isPlaying /\ Len(words) > 0) => togglePlay(Cur).isPlaying
    /\ isPlaying => ~togglePlay(Cur).isPlaying

\* C20: a pair tick advances pairPos by exactly 2 when pairPos + 2 is below
\* the length, and otherwise stops the pair timer, pauses pair playback and
\* leaves pairPos unchanged; running pair playback eventually stops.
C20_PairTickStepsOrStops ==
    /\ [][PairTick
            => IF pairPos + 2 < Len(words)
               THEN /\ pairPos' = pairPos + 2
                    /\ isPairPlaying' = isPairPlaying
               ELSE /\ pairPos' = pairPos
                    /\ ~isPairPlaying' /\ livePairTimers' = 0 /\ ~pairTimerRef']_vars
    /\ (isPairPlaying ~> ~isPairPlaying)

\* pair playback has run to the end of a document of odd length and has
\* stopped on its last even index
C20_Witness ==
    /\ ~isPairPlaying /\ livePairTimers = 0
    /\ Len(words) % 2 = 1 /\ pairPos > 0 /\ pairPos = Len(words) - 1

\* C21: a manual pair step in the two-word mode leaves the pair timer
\* paused; a forward step sets pairPos to min(pairPos + 2, max(0, length - 2))
\* and a backward step sets it to max(0, pairPos - 2).
C21_ManualPairStep ==
    [][/\ (isAngleMode /\ KeyArrowRight)
            => /\ ~isPairPlaying' /\ livePairTimers' = 0 /\ ~pairTimerRef'
               /\ pairPos' = Min(pairPos + 2, Max(0, Len(words) - 2))
       /\ (isAngleMode /\ KeyArrowLeft)
            => /\ ~isPairPlaying' /\ livePairTimers' = 0 /\ ~pairTimerRef'
               /\ pairPos' = Max(0, pairPos - 2)]_vars

\* a forward step has put the pair on the limit length - 2 of a document of
\* odd length, paused, during Training
C21_Witness ==
    /\ isAngleMode /\ isTraining /\ ~isPairPlaying /\ livePairTimers = 0
    /\ Len(words) % 2 = 1 /\ pairPos = Len(words) - 2

\* C25: a manual forward step in the two-word mode never moves backward:
\* pairPos after the step is at least pairPos before it, and the index of
\* the displayed left word does not decrease.
C25_ForwardStepNeverBackward ==
    [][(isAngleMode /\ KeyArrowRight)
         => /\ pairPos' >= pairPos
            /\ leftIndex(pairPos') >= leftIndex(pairPos)]_vars

\* C22: after any sequence of rate commands of the WPM buttons and of the
\* ArrowUp/ArrowDown keys, starting from 300, wpm stays within
\* [WPM_MIN, WPM_MAX], and the tick interval is at least 1 ms (200 ms at 300).
C22_RateInBounds ==
    /\ wpm >= WPM_MIN /\ wpm <= WPM_MAX
    /\ msPerChunk(wpm) >= 1
    /\ wpm = WPM_INIT => msPerChunk(wpm) = 200

\* C23: linear playback driven only by ticks terminates: position strictly
\* increases on every tick that does not stop playback, and running
\* playback eventually becomes idle with the interval cleared.
C23_LinearPlaybackTerminates ==
    /\ [][(LinearTick /\ isPlaying') => position' > position]_vars
    /\ (isPlaying ~> (~isPlaying /\ liveIntervals = 0 /\ ~intervalRef))

\* playback has run to the end of a document of several words and stopped
\* on a later chunk start
C23_Witness ==
    /\ ~isPlaying /\ liveIntervals = 0 /\ ~intervalRef
    /\ Len(words) > 1 /\ position > 0
    /\ TickNext(words, charLimit, position) >= Len(words)

\* C26: the three forward accumulations agree for every start index below
\* the length: the number of words of the displayed chunk (getChunkText),
\* the advance of a linear tick and the advance of getNextChunkStart are
\* equal; a tick that keeps playing moves position by exactly the number of
\* words displayed, so no word is skipped or shown twice.
C26_ThreeAccumulationsAgree ==
    /\ [](\A s \in 0..(Len(words) - 1) :
            /\ TickNext(words, charLimit, s) - s
                 = Len(ChunkScan(words, charLimit, s, 0, << >>))
            /\ getNextChunkStart(words, charLimit, s) - s
                 = Len(ChunkScan(words, charLimit, s, 0, << >>)))
    /\ [][(LinearTick /\ isPlaying')
            => position' = position
                 + Len(ChunkScan(words, charLimit, position, 0, << >>))]_vars

\* two ticks have moved the cursor of the example document over the chunks
\* "The quick" and "brown fox" with width 10, playback still running
C26_Witness ==
    /\ words = ExampleDoc /\ charLimit = 10
    /\ position = 4 /\ isPlaying /\ displayedText = "jumps"

\* C24: opening a document whose saved position is below its length leaves
\* the reader at the saved position with playback idle, whatever document
\* was open before.
C24_OpenRestoresSavedPosition ==
    [][\A id \in BookIds :
         (OpenBook(id) /\ books[id] < Len(BookWords(id)))
            => (position' = books[id] /\ ~isPlaying')]_vars

\* C27: in the two-word mode the index of the displayed pair, leftIndex of
\* pairPos, is even and within [0, max(0, length - 1)] whatever pairPos
\* holds, and it is the value synced to the linear cursor.
C27_LeftIndexEvenAndSynced ==
    (phase = "reading" /\ isAngleMode)
      => /\ leftIndex(pairPos) % 2 = 0
         /\ leftIndex(pairPos) >= 0
         /\ leftIndex(pairPos) <= Max(0, Len(words) - 1)
         /\ position = leftIndex(pairPos)
         /\ lastSyncedPosRef = leftIndex(pairPos)

\* the pair position is odd after a forward step on a document of odd
\* length; the displayed pair and the linear cursor are on the even index
\* below it
C27_Witness ==
    /\ phase = "reading" /\ isAngleMode
    /\ pairPos % 2 = 1 /\ position = pairPos - 1

\* C28: from the linear mode, switching the two-word mode on and off again
\* with nothing in between leaves the linear position at the largest even
\* index not above its value: it never increases and decreases by at most 1.
C28_RoundTripSnapsToEven ==
    (phase = "reading" /\ ~isAngleMode)
      => LET entered == Settle(Cur, [Cur EXCEPT !.isAngleMode = TRUE])
             left == Settle(entered, [entered EXCEPT !.isAngleMode = FALSE])
         IN  /\ entered.isAngleMode /\ ~left.isAngleMode
             /\ left.position = position - (position % 2)
             /\ left.position <= position
             /\ position - left.position <= 1

\* the reader is back in the linear mode on index 2 after the two-word mode
\* was on at pair 2 without Training: the sync marker is reset, the pair
\* marker still holds the pair
C28_Witness ==
    /\ phase = "reading" /\ ~isAngleMode /\ ~showGuide
    /\ position = 2 /\ pairPos = 2
    /\ lastSyncedPosRef = -1 /\ prevPairPosRef = 2 /\ pairGap = GAP_INIT

\* C29: turning Training off with toggleTraining ends in the linear mode
\* with Training off and the pair timer stopped; no step that leaves
\* Training ends in the two-word mode.
C29_TrainingOffEndsLinear ==
    [][/\ (isTraining /\ ToggleTraining)
            => /\ ~isAngleMode' /\ ~isTraining'
               /\ ~isPairPlaying' /\ livePairTimers' = 0 /\ ~pairTimerRef'
       /\ (isTraining /\ ~isTraining') => ~isAngleMode']_vars

\* Training was turned off while the reader stayed open: linear mode, the
\* guide and the training gap still as Training left them, the rate changed
C29_Witness ==
    /\ phase = "reading" /\ ~isAngleMode /\ ~isTraining /\ showGuide
    /\ pairGap = TRAIN_MIN + TRAIN_STEP /\ wpm # WPM_INIT

====
